---- MODULE Spec2Model ----
(***************************************************************************)
(* Model of rotate_captcha_crack/trainer.py: the Trainer's epoch loop,     *)
(* save_checkpoint / load_checkpoint, resume, and the files of a run.      *)
(*                                                                         *)
(* Losses, learning rates and times are floats in the source; the model    *)
(* uses integers (a loss of 0.45 is 45, a time of 1 s is 1).  Arrays are   *)
(* indexed from 0 in the source and sequences from 1 here: the helpers     *)
(* ArrGet / ArrSet / InBounds take the source's index.                     *)
(***************************************************************************)
EXTENDS Integers, Sequences, FiniteSets, TLC

\* ------------------------------------------------------------------ bounds
MaxEpoches == 4      \* largest `epoches` a Trainer is constructed with
MaxBatches == 1      \* most batches a dataloader yields in one pass
MaxCalls   == 3      \* train() / resume() calls in one behaviour
MaxKills   == 1      \* external kills in one behaviour

\* ------------------------------------------------------- program constants
maxsize == 2147483647          \* sys.maxsize, cut to TLC's 32-bit integers
InitialLr == 2                 \* the optimizer's learning rate at construction
MinLr == 0                     \* ReduceLROnPlateau's floor

\* per-batch losses the loss module can return
TrainLosses == {60}
EvalLosses  == {50, 80}
\* An entry np.empty has allocated and nothing has written: its content is
\* whatever the memory held.  The program never reads such an entry, it only
\* copies it to and from the .npy files, so one marker stands for all contents.
garbage == -2

\* an attribute of __slots__ that has not been assigned yet
Unset == -1
NoArray == << >>

VARIABLES
    \* ---- the Trainer object (lives in the process)
    pc,                 \* where the process is: "idle", a step of train(), or "dead"
    epoches, is_new_task, finder, logger,
    model, optmizer, lr_scheduler,
    lr_array, train_loss_array, eval_loss_array,
    best_eval_loss, last_epoch, t_cost,
    \* ---- locals of train()
    start_t, range_next, range_stop, epoch_idx, train_loss, eval_loss,
    steps, eval_batch_count,
    \* ---- the clock
    now,
    \* ---- the filesystem: the directory of the newest run.  A new task's first
    \* train() starts a new run directory; resume() addresses the newest one, so
    \* older runs are never read or written again and are not kept.
    num_runs, dirs,
    last_ckpt, last_json, lr_npy, train_loss_npy, eval_loss_npy,
    best_pth, log_file,
    \* ---- history variables (not program state)
    calls, kills, cur, prev, outcome, cnt, wrote_best, latest,
    snap, snap_prev, resumed_epoch, saved,
    killed_epoch        \* the epoch the last kill cut short before its checkpoint write,
                        \* kept until the next Trainer's first training pass

trainer == <<epoches, is_new_task, finder, logger, model, optmizer, lr_scheduler,
             lr_array, train_loss_array, eval_loss_array,
             best_eval_loss, last_epoch, t_cost>>
locals == <<start_t, range_next, range_stop, epoch_idx, train_loss, eval_loss>>
counts == <<steps, eval_batch_count>>
ckpt_files == <<last_ckpt, last_json, lr_npy, train_loss_npy, eval_loss_npy>>
disk == <<num_runs, dirs, last_ckpt, last_json, lr_npy, train_loss_npy,
          eval_loss_npy, best_pth, log_file>>
history == <<calls, kills, killed_epoch, cur, prev, outcome, cnt, wrote_best, latest,
             snap, snap_prev, resumed_epoch, saved>>
vars == <<pc, trainer, locals, counts, now, disk, history>>

\* ----------------------------------------------------------------- arrays
ArrGet(a, i) == a[i + 1]
ArrSet(a, i, v) == [a EXCEPT ![i + 1] = v]
InBounds(a, i) == i >= 0 /\ i < Len(a)
empty(n) == [i \in 1..n |-> garbage]

RECURSIVE Sum(_)
Sum(s) == IF s = << >> THEN 0 ELSE Head(s) + Sum(Tail(s))

Min(S) == CHOOSE x \in S : \A y \in S : x <= y

\* ------------------------------------------------------------- the scheduler
\* ReduceLROnPlateau seen through step(metrics), _last_lr[0], state_dict():
\* it remembers the best metric and lowers the rate when a step does not improve.
InitSched == [best |-> maxsize, last_lr |-> InitialLr]
SchedulerStep(s, metrics) ==
    IF metrics < s.best
    THEN [s EXCEPT !.best = metrics]
    ELSE [s EXCEPT !.last_lr = IF s.last_lr > MinLr THEN s.last_lr - 1 ELSE MinLr]

\* ------------------------------------------------------------------- files
\* A file is absent, whole ("ok") or cut short by a kill in mid-write ("torn").
NoCkptData == [model |-> 0, optmizer |-> 0, lr_scheduler |-> InitSched]
Absent(d) == [st |-> "absent", data |-> d]
Torn(d)   == [st |-> "torn", data |-> d]
Whole(d)  == [st |-> "ok", data |-> d]

\* torch.save of the three state_dicts under their keys
CkptDict == [model |-> model, optmizer |-> optmizer, lr_scheduler |-> lr_scheduler]

\* json.dump with last_epoch taken before the epoch was counted
JsonDumpStale == << <<"best_eval_loss", best_eval_loss>>,
                    <<"last_epoch", last_epoch - 1>>,
                    <<"t_cost", t_cost>> >>

\* json.dump: the object as its key/value pairs, in the order written
JsonDump == << <<"best_eval_loss", best_eval_loss>>,
               <<"last_epoch", last_epoch>>,
               <<"t_cost", t_cost>> >>
\* variables[key] of the object json.load returns
JsonGet(obj, key) == (CHOOSE i \in 1..Len(obj) : obj[i][1] = key)
JsonHas(obj, key) == \E i \in 1..Len(obj) : obj[i][1] = key
JsonValue(obj, key) == obj[JsonGet(obj, key)][2]

\* self.t_cost = variables['t_cost']
LoadedTCostAdded(obj) == t_cost + JsonValue(obj, "t_cost")
LoadedTCost(obj) == JsonValue(obj, "t_cost")

\* what save_checkpoint() persists and load_checkpoint() restores
CheckpointState == <<model, optmizer, lr_scheduler, best_eval_loss, last_epoch,
                     t_cost, lr_array, train_loss_array, eval_loss_array>>

CkptNames == {"last.ckpt", "last.json", "lr.npy", "train_loss.npy", "eval_loss.npy"}
ZeroCnt == [train |-> 0, val |-> 0, log |-> 0, best |-> 0, ckpt |-> 0]

\* ------------------------------------------------------------------- Init
\* A Trainer as __init__ leaves it: the given collaborators, no logger, a new task.
\* The arrays and scalars of __slots__ are not assigned yet.
Constructed(e) ==
    /\ pc' = "idle"
    /\ epoches' = e
    /\ is_new_task' = TRUE
    /\ finder' = 0
    /\ logger' = FALSE
    /\ model' = 0
    /\ optmizer' = 0
    /\ lr_scheduler' = InitSched
    /\ lr_array' = NoArray
    /\ train_loss_array' = NoArray
    /\ eval_loss_array' = NoArray
    /\ best_eval_loss' = Unset
    /\ last_epoch' = Unset
    /\ t_cost' = Unset

NoLocals ==
    /\ start_t' = Unset
    /\ range_next' = Unset
    /\ range_stop' = Unset
    /\ epoch_idx' = Unset
    /\ train_loss' = Unset
    /\ eval_loss' = Unset

NoCounts ==
    /\ steps' = Unset
    /\ eval_batch_count' = Unset

NoCallHistory ==
    /\ cur' = "none"
    /\ prev' = "none"
    /\ outcome' = "none"
    /\ cnt' = ZeroCnt
    /\ wrote_best' = {}
    /\ snap' = << >>
    /\ snap_prev' = << >>
    /\ resumed_epoch' = Unset

Init ==
    /\ pc = "idle"
    /\ epoches \in 1..MaxEpoches
    /\ is_new_task = TRUE
    /\ finder = 0
    /\ logger = FALSE
    /\ model = 0
    /\ optmizer = 0
    /\ lr_scheduler = InitSched
    /\ lr_array = NoArray
    /\ train_loss_array = NoArray
    /\ eval_loss_array = NoArray
    /\ best_eval_loss = Unset
    /\ last_epoch = Unset
    /\ t_cost = Unset
    /\ start_t = Unset
    /\ range_next = Unset
    /\ range_stop = Unset
    /\ epoch_idx = Unset
    /\ train_loss = Unset
    /\ eval_loss = Unset
    /\ steps = Unset
    /\ eval_batch_count = Unset
    /\ now = 0
    /\ num_runs = 0
    /\ dirs = {}
    /\ last_ckpt = Absent(NoCkptData)
    /\ last_json = Absent(<< >>)
    /\ lr_npy = Absent(NoArray)
    /\ train_loss_npy = Absent(NoArray)
    /\ eval_loss_npy = Absent(NoArray)
    /\ best_pth = Absent(0)
    /\ log_file = << >>
    /\ calls = 0
    /\ kills = 0
    /\ killed_epoch = Unset
    /\ cur = "none"
    /\ prev = "none"
    /\ outcome = "none"
    /\ cnt = ZeroCnt
    /\ wrote_best = {}
    /\ latest = {}
    /\ snap = << >>
    /\ snap_prev = << >>
    /\ resumed_epoch = Unset
    /\ saved = << >>

\* ------------------------------------------------------ the process dies
SaveSteps == {"save_ckpt", "save_json", "save_lr", "save_train_loss", "save_eval_loss"}

\* the steps of an epoch at which save_checkpoint() has not written anything yet
BeforeWrite == {"train_pass", "sched", "val_pass", "book", "best", "save_ckpt"}

\* The file the step at pc is about to write, cut short when the kill lands in the write.
TornWrite ==
    /\ last_ckpt' = IF pc = "save_ckpt" THEN Torn(NoCkptData) ELSE last_ckpt
    /\ last_json' = IF pc = "save_json" THEN Torn(<< >>) ELSE last_json
    /\ lr_npy' = IF pc = "save_lr" THEN Torn(NoArray) ELSE lr_npy
    /\ train_loss_npy' = IF pc = "save_train_loss" THEN Torn(NoArray) ELSE train_loss_npy
    /\ eval_loss_npy' = IF pc = "save_eval_loss" THEN Torn(NoArray) ELSE eval_loss_npy
    /\ best_pth' = IF pc = "best" THEN Torn(0) ELSE best_pth
    /\ latest' = CASE pc = "save_ckpt" -> {"last.ckpt"}
                   [] pc = "save_json" -> latest \cup {"last.json"}
                   [] pc = "save_lr" -> latest \cup {"lr.npy"}
                   [] pc = "save_train_loss" -> latest \cup {"train_loss.npy"}
                   [] pc = "save_eval_loss" -> latest \cup {"eval_loss.npy"}
                   [] OTHER -> latest
    /\ saved' = IF pc \in SaveSteps THEN << >> ELSE saved

\* An external kill: everything in memory is lost, the files stay as they are.
Interrupt ==
    /\ pc # "dead"
    /\ kills < MaxKills
    /\ kills' = kills + 1
    /\ \E torn \in BOOLEAN :
         LET tears == torn /\ (pc \in SaveSteps \/ (pc = "best" /\ eval_loss < best_eval_loss))
         IN  /\ IF tears
                THEN TornWrite
                ELSE UNCHANGED <<ckpt_files, best_pth, latest, saved>>
             /\ killed_epoch' = IF pc \in BeforeWrite /\ ~(tears /\ pc = "save_ckpt")
                                THEN epoch_idx ELSE Unset
    /\ pc' = "dead"
    /\ epoches' = Unset
    /\ is_new_task' = TRUE
    /\ finder' = 0
    /\ logger' = FALSE
    /\ model' = 0
    /\ optmizer' = 0
    /\ lr_scheduler' = InitSched
    /\ lr_array' = NoArray
    /\ train_loss_array' = NoArray
    /\ eval_loss_array' = NoArray
    /\ best_eval_loss' = Unset
    /\ last_epoch' = Unset
    /\ t_cost' = Unset
    /\ NoLocals
    /\ NoCounts
    /\ NoCallHistory
    /\ UNCHANGED <<now, num_runs, dirs, log_file, calls>>

\* Trainer.__init__ in a new process
Construct ==
    /\ pc = "dead"
    /\ \E e \in 1..MaxEpoches : Constructed(e)
    /\ UNCHANGED <<locals, counts, now, disk, history>>

\* ------------------------------------------------------------ resume()
\* load_checkpoint(): the files are read in the order of the source, and each
\* attribute is assigned as soon as its file has been read; the first file
\* that is absent or unreadable raises and leaves the rest as it was.
\* `found` is whether the finder resolved a run directory.
LoadCheckpoint(found) ==
    LET ok1 == found /\ last_ckpt.st = "ok"
        ok2 == ok1 /\ last_json.st = "ok"
        ok3 == ok2 /\ lr_npy.st = "ok"
        ok4 == ok3 /\ train_loss_npy.st = "ok"
        ok5 == ok4 /\ eval_loss_npy.st = "ok"
    IN  /\ model' = IF ok1 THEN last_ckpt.data.model ELSE model
        /\ optmizer' = IF ok1 THEN last_ckpt.data.optmizer ELSE optmizer
        /\ lr_scheduler' = IF ok1 THEN last_ckpt.data.lr_scheduler ELSE lr_scheduler
        /\ best_eval_loss' = IF ok2 THEN JsonValue(last_json.data, "best_eval_loss")
                             ELSE best_eval_loss
        /\ last_epoch' = IF ok2 THEN JsonValue(last_json.data, "last_epoch") ELSE last_epoch
        /\ t_cost' = IF ok2 THEN LoadedTCost(last_json.data) ELSE t_cost
        /\ lr_array' = IF ok3 THEN lr_npy.data ELSE lr_array
        /\ train_loss_array' = IF ok4 THEN train_loss_npy.data ELSE train_loss_array
        /\ eval_loss_array' = IF ok5 THEN eval_loss_npy.data ELSE eval_loss_array
        /\ outcome' = IF ok5 THEN "completed" ELSE "LoadError"
        /\ cur' = IF ok5 THEN "resume_ok" ELSE "resume_err"

\* finder.with_index(-1): the newest run, an error when there is none
WithIndex == IF num_runs > 0 THEN num_runs ELSE 0

\* a resume() that prepares the run's directories the way train() does
ResumeMkdir ==
    /\ pc = "idle"
    /\ calls < MaxCalls
    /\ calls' = calls + 1
    /\ UNCHANGED <<kills, killed_epoch>>
    /\ is_new_task' = FALSE
    /\ finder' = IF WithIndex > 0 THEN WithIndex ELSE finder
    /\ LoadCheckpoint(WithIndex > 0)
    /\ dirs' = dirs \cup {"checkpoint", "log"}
    /\ UNCHANGED <<pc, epoches, logger, locals, counts, now, num_runs, ckpt_files,
                   best_pth, log_file>>
    /\ prev' = cur
    /\ resumed_epoch' = IF cur' = "resume_ok" THEN last_epoch' ELSE Unset
    /\ snap_prev' = IF cur \in {"resume_ok", "resume_err"} THEN snap ELSE << >>
    /\ snap' = << [mem |-> trainer', files |-> disk'] >>
    /\ UNCHANGED <<cnt, wrote_best, latest, saved>>

Resume ==
    /\ pc = "idle"
    /\ calls < MaxCalls
    /\ calls' = calls + 1
    /\ UNCHANGED <<kills, killed_epoch>>
    /\ is_new_task' = FALSE
    /\ finder' = IF WithIndex > 0 THEN WithIndex ELSE finder
    /\ LoadCheckpoint(WithIndex > 0)
    /\ UNCHANGED <<pc, epoches, logger, locals, counts, now, disk>>
    /\ prev' = cur
    /\ resumed_epoch' = IF cur' = "resume_ok" THEN last_epoch' ELSE Unset
    /\ snap_prev' = IF cur \in {"resume_ok", "resume_err"} THEN snap ELSE << >>
    /\ snap' = << [mem |-> trainer', files |-> disk'] >>
    /\ UNCHANGED <<cnt, wrote_best, latest, saved>>

\* ------------------------------------------------------------- train()
\* an exception leaves train(): the Trainer stays as it is at that point
Abort(exception) ==
    /\ pc' = "idle"
    /\ outcome' = exception
    /\ NoLocals

\* A new task: fresh arrays and scalars, and the run's directories.  The finder
\* gives a new task the next run index the first time its model_dir is asked for.
FreshInit ==
    /\ lr_array' = empty(epoches)
    /\ train_loss_array' = empty(epoches)
    /\ eval_loss_array' = empty(epoches)
    /\ best_eval_loss' = maxsize
    /\ last_epoch' = 0
    /\ t_cost' = 0
    /\ dirs' = {"model_dir", "checkpoint", "log"}
    /\ IF finder = 0
       THEN /\ finder' = num_runs + 1
            /\ num_runs' = num_runs + 1
            /\ last_ckpt' = Absent(NoCkptData)
            /\ last_json' = Absent(<< >>)
            /\ lr_npy' = Absent(NoArray)
            /\ train_loss_npy' = Absent(NoArray)
            /\ eval_loss_npy' = Absent(NoArray)
            /\ best_pth' = Absent(0)
            /\ log_file' = << >>
            /\ latest' = {}
            /\ saved' = << >>
       ELSE UNCHANGED <<finder, num_runs, ckpt_files, best_pth, log_file, latest, saved>>

\* a loop that starts again at the last completed epoch and includes the budget
EpochRangeRedo(last) == [start |-> last, stop |-> epoches + 1]

\* a loop that starts again at the last completed epoch
EpochRangeSame(last) == [start |-> last, stop |-> epoches]

\* range(self.last_epoch + 1, self.epoches)
EpochRange(last) == [start |-> last + 1, stop |-> epoches]

TrainBegin ==
    /\ pc = "idle"
    /\ calls < MaxCalls
    /\ calls' = calls + 1
    /\ UNCHANGED kills
    /\ killed_epoch' = IF cur = "resume_ok" THEN killed_epoch ELSE Unset
    /\ prev' = cur
    /\ cur' = "train"
    /\ cnt' = ZeroCnt
    /\ wrote_best' = {}
    /\ snap_prev' = << >>
    /\ IF is_new_task
       THEN FreshInit
       ELSE UNCHANGED <<lr_array, train_loss_array, eval_loss_array, best_eval_loss,
                        last_epoch, t_cost, dirs, finder, num_runs, ckpt_files,
                        best_pth, log_file, latest, saved>>
    /\ NoCounts
    /\ IF last_epoch' = Unset
       THEN Abort("AttributeError")
       ELSE /\ start_t' = now
            /\ range_next' = EpochRange(last_epoch').start
            /\ range_stop' = EpochRange(last_epoch').stop
            /\ pc' = "loop"
            /\ outcome' = "running"
            /\ UNCHANGED <<epoch_idx, train_loss, eval_loss>>
    /\ UNCHANGED <<epoches, is_new_task, logger, model, optmizer, lr_scheduler, now,
                   snap, resumed_epoch>>

\* the for statement takes the next index of the range, or the loop ends
LoopNext ==
    /\ pc = "loop"
    /\ IF range_next < range_stop
       THEN /\ epoch_idx' = range_next
            /\ range_next' = range_next + 1
            /\ pc' = "train_pass"
            /\ UNCHANGED <<start_t, range_stop, train_loss, eval_loss, outcome>>
       ELSE /\ pc' = "idle"
            /\ outcome' = "completed"
            /\ NoLocals
    /\ killed_epoch' = IF range_next < range_stop THEN killed_epoch ELSE Unset
    /\ NoCounts
    /\ UNCHANGED <<trainer, now, disk, calls, kills, cur, prev, cnt, wrote_best, latest,
                   snap, snap_prev, resumed_epoch, saved>>

\* what a dataloader yields in one pass: up to MaxBatches batches, all of one loss
Batches(losses) == { [i \in 1..n |-> l] : n \in 0..MaxBatches, l \in losses }

\* The weights (and the optimizer's buffers) after a pass of `steps` optimizer
\* steps: a version number, one up for every pass that made a step.
Trained(version, n) == IF n > 0 THEN version + 1 ELSE version

\* a division that answers 0 for an empty pass instead of raising
DivideGuarded(total, n) ==
    [raised |-> FALSE, value |-> IF n = 0 THEN 0 ELSE total \div n]

\* total / n: the quotient, or ZeroDivisionError raised
Divide(total, n) ==
    [raised |-> n = 0, value |-> IF n = 0 THEN 0 ELSE total \div n]

\* the exception of `array[i] = v`, "" when the store succeeds
StoreError(array, i) ==
    IF array = NoArray THEN "AttributeError"
    ELSE IF ~InBounds(array, i) THEN "IndexError"
    ELSE ""

\* time.perf_counter(): the clock is one tick further after every training pass
perf_counter == now + 1

\* the training pass, train_loss and its entry in train_loss_array
TrainPass ==
    /\ pc = "train_pass"
    /\ \E batches \in Batches(TrainLosses) :
         /\ now' = perf_counter
         /\ model' = Trained(model, Len(batches))
         /\ optmizer' = Trained(optmizer, Len(batches))
         /\ cnt' = [cnt EXCEPT !.train = @ + 1]
         /\ steps' = Len(batches)
         /\ LET q == Divide(Sum(batches), Len(batches))
                err == StoreError(train_loss_array, epoch_idx)
            IN  IF q.raised \/ err # ""
                THEN /\ Abort(IF q.raised THEN "ZeroDivisionError" ELSE err)
                     /\ UNCHANGED train_loss_array
                ELSE /\ train_loss' = q.value
                     /\ train_loss_array' = ArrSet(train_loss_array, epoch_idx, q.value)
                     /\ pc' = "sched"
                     /\ UNCHANGED <<start_t, range_next, range_stop, epoch_idx, eval_loss, outcome>>
    /\ killed_epoch' = Unset
    /\ UNCHANGED eval_batch_count
    /\ UNCHANGED <<epoches, is_new_task, finder, logger, lr_scheduler, lr_array,
                   eval_loss_array, best_eval_loss, last_epoch, t_cost, disk,
                   calls, kills, cur, prev, wrote_best, latest, snap, snap_prev,
                   resumed_epoch, saved>>

\* lr_scheduler.step(metrics=train_loss) and the rate's entry in lr_array
\* (steps is not read again once train_loss is computed: the model drops it here)
SchedStep ==
    /\ pc = "sched"
    /\ steps' = Unset
    /\ lr_scheduler' = SchedulerStep(lr_scheduler, train_loss)
    /\ IF StoreError(lr_array, epoch_idx) # ""
       THEN /\ Abort(StoreError(lr_array, epoch_idx))
            /\ UNCHANGED lr_array
       ELSE /\ lr_array' = ArrSet(lr_array, epoch_idx, lr_scheduler'.last_lr)
            /\ pc' = "val_pass"
            /\ UNCHANGED <<locals, outcome>>
    /\ UNCHANGED <<epoches, is_new_task, finder, logger, model, optmizer,
                   train_loss_array, eval_loss_array, best_eval_loss, last_epoch,
                   t_cost, eval_batch_count, now, disk, calls, kills, killed_epoch, cur, prev, cnt,
                   wrote_best, latest, snap, snap_prev, resumed_epoch, saved>>

\* the validation pass, eval_loss and its entry in eval_loss_array
ValPass ==
    /\ pc = "val_pass"
    /\ \E batches \in Batches(EvalLosses) :
         /\ cnt' = [cnt EXCEPT !.val = @ + 1]
         /\ eval_batch_count' = Len(batches)
         /\ LET q == Divide(Sum(batches), Len(batches))
                err == StoreError(eval_loss_array, epoch_idx)
            IN  IF q.raised \/ err # ""
                THEN /\ Abort(IF q.raised THEN "ZeroDivisionError" ELSE err)
                     /\ UNCHANGED eval_loss_array
                ELSE /\ eval_loss' = q.value
                     /\ eval_loss_array' = ArrSet(eval_loss_array, epoch_idx, q.value)
                     /\ pc' = "book"
                     /\ UNCHANGED <<start_t, range_next, range_stop, epoch_idx, train_loss, outcome>>
    /\ UNCHANGED steps
    /\ UNCHANGED <<epoches, is_new_task, finder, logger, model, optmizer, lr_scheduler,
                   lr_array, train_loss_array, best_eval_loss, last_epoch, t_cost,
                   now, disk, calls, kills, killed_epoch, cur, prev, wrote_best, latest, snap,
                   snap_prev, resumed_epoch, saved>>

\* self.t_cost += time.perf_counter() - start_t
Elapsed == now - start_t

\* t_cost and the epoch's log line (the line is kept as its epoch index;
\* eval_batch_count is not read again: the model drops it here)
Bookkeep ==
    /\ pc = "book"
    /\ eval_batch_count' = Unset
    /\ t_cost' = t_cost + Elapsed
    /\ logger' = TRUE
    /\ log_file' = Append(log_file, epoch_idx)
    /\ cnt' = [cnt EXCEPT !.log = @ + 1]
    /\ pc' = "best"
    /\ UNCHANGED <<epoches, is_new_task, finder, model, optmizer, lr_scheduler,
                   lr_array, train_loss_array, eval_loss_array, best_eval_loss,
                   last_epoch, locals, steps, now, num_runs, dirs, ckpt_files, best_pth,
                   calls, kills, killed_epoch, cur, prev, outcome, wrote_best, latest, snap,
                   snap_prev, resumed_epoch, saved>>

\* if eval_loss < self.best_eval_loss
IsBetterOrEqual == eval_loss <= best_eval_loss
IsBetter == eval_loss < best_eval_loss

BestCheck ==
    /\ pc = "best"
    /\ IF IsBetter
       THEN /\ best_eval_loss' = eval_loss
            /\ best_pth' = Whole(model)
            /\ cnt' = [cnt EXCEPT !.best = @ + 1]
            /\ wrote_best' = wrote_best \cup {epoch_idx}
       ELSE UNCHANGED <<best_eval_loss, best_pth, cnt, wrote_best>>
    /\ pc' = "save_ckpt"
    /\ UNCHANGED <<epoches, is_new_task, finder, logger, model, optmizer, lr_scheduler,
                   lr_array, train_loss_array, eval_loss_array, last_epoch, t_cost,
                   locals, counts, now, num_runs, dirs, ckpt_files, log_file,
                   calls, kills, killed_epoch, cur, prev, outcome, latest, snap, snap_prev,
                   resumed_epoch, saved>>

\* ------------------------------------------------- save_checkpoint()
\* self.last_epoch = epoch_idx, then the five files, one after the other.
SaveCkpt ==
    /\ pc = "save_ckpt"
    /\ last_epoch' = epoch_idx
    /\ last_ckpt' = Whole(CkptDict)
    /\ latest' = {"last.ckpt"}
    /\ saved' = << >>
    /\ pc' = "save_json"
    /\ UNCHANGED <<epoches, is_new_task, finder, logger, model, optmizer, lr_scheduler,
                   lr_array, train_loss_array, eval_loss_array, best_eval_loss, t_cost,
                   locals, counts, now, num_runs, dirs, last_json, lr_npy, train_loss_npy,
                   eval_loss_npy, best_pth, log_file, calls, kills, killed_epoch, cur, prev, outcome, cnt,
                   wrote_best, snap, snap_prev, resumed_epoch>>

SaveJson ==
    /\ pc = "save_json"
    /\ last_json' = Whole(JsonDump)
    /\ latest' = latest \cup {"last.json"}
    /\ pc' = "save_lr"
    /\ UNCHANGED <<trainer, locals, counts, now, num_runs, dirs, last_ckpt, lr_npy,
                   train_loss_npy, eval_loss_npy, best_pth, log_file, calls, kills, killed_epoch, cur, prev,
                   outcome, cnt, wrote_best, snap, snap_prev, resumed_epoch,
                   saved>>

SaveLr ==
    /\ pc = "save_lr"
    /\ lr_npy' = Whole(lr_array)
    /\ latest' = latest \cup {"lr.npy"}
    /\ pc' = "save_train_loss"
    /\ UNCHANGED <<trainer, locals, counts, now, num_runs, dirs, last_ckpt, last_json,
                   train_loss_npy, eval_loss_npy, best_pth, log_file, calls, kills, killed_epoch, cur, prev,
                   outcome, cnt, wrote_best, snap, snap_prev, resumed_epoch,
                   saved>>

SaveTrainLoss ==
    /\ pc = "save_train_loss"
    /\ train_loss_npy' = Whole(train_loss_array)
    /\ latest' = latest \cup {"train_loss.npy"}
    /\ pc' = "save_eval_loss"
    /\ UNCHANGED <<trainer, locals, counts, now, num_runs, dirs, last_ckpt, last_json,
                   lr_npy, eval_loss_npy, best_pth, log_file, calls, kills, killed_epoch, cur, prev,
                   outcome, cnt, wrote_best, snap, snap_prev, resumed_epoch,
                   saved>>

\* the last file; the loop goes on to its next index
SaveEvalLoss ==
    /\ pc = "save_eval_loss"
    /\ eval_loss_npy' = Whole(eval_loss_array)
    /\ latest' = latest \cup {"eval_loss.npy"}
    /\ cnt' = [cnt EXCEPT !.ckpt = @ + 1]
    /\ saved' = << CheckpointState >>
    /\ pc' = "loop"
    /\ UNCHANGED <<trainer, locals, counts, now, num_runs, dirs, last_ckpt, last_json,
                   lr_npy, train_loss_npy, best_pth, log_file, calls, kills, killed_epoch, cur, prev,
                   outcome, wrote_best, snap, snap_prev, resumed_epoch>>

\* ------------------------------------------------------------------- Spec
Next ==
    \/ Construct
    \/ Interrupt
    \/ Resume
    \/ TrainBegin
    \/ LoopNext
    \/ TrainPass
    \/ SchedStep
    \/ ValPass
    \/ Bookkeep
    \/ BestCheck
    \/ SaveCkpt
    \/ SaveJson
    \/ SaveLr
    \/ SaveTrainLoss
    \/ SaveEvalLoss

Spec == Init /\ [][Next]_vars

\* ================================================================ claims
\* last_epoch as last.json holds it, Unset while the file is absent or torn
PersistedEpoch ==
    IF last_json.st = "ok" THEN JsonValue(last_json.data, "last_epoch") ELSE Unset

\* C1: over any sequence of train() / resume() calls and kills, last_epoch (in
\* memory and in last.json) never decreases, grows by exactly 1 at the end of
\* each completed epoch, and is never above the Trainer's epoches.
C1_LastEpochMonotone ==
    [][ /\ (last_epoch # Unset /\ last_epoch' # Unset) => last_epoch' >= last_epoch
        /\ (num_runs' = num_runs /\ PersistedEpoch # Unset /\ PersistedEpoch' # Unset)
              => PersistedEpoch' >= PersistedEpoch
        /\ (pc = "save_ckpt" /\ pc' = "save_json") => last_epoch' = last_epoch + 1
        /\ (pc' # "dead" /\ last_epoch' # Unset) => last_epoch' <= epoches'
      ]_vars

\* the eval losses of the epochs 1 .. last_epoch
EvalHistory == { ArrGet(eval_loss_array, i) : i \in 1..last_epoch }

\* save_checkpoint() has just returned in this train() call
JustPersisted == pc = "loop" /\ cnt.ckpt > 0

\* C2: whenever a checkpoint has just been persisted with last_epoch >= 1,
\* best_eval_loss is the minimum of eval_loss_array[1 .. last_epoch].
C2_BestIsMinOfHistory ==
    (JustPersisted /\ last_epoch >= 1) => best_eval_loss = Min(EvalHistory)

\* C3: a resume() that reads the files a whole save_checkpoint() wrote succeeds
\* and restores every field of the state that save_checkpoint() was given.
C3_RoundTrip ==
    (cur \in {"resume_ok", "resume_err"} /\ saved # << >>)
        => (cur = "resume_ok" /\ CheckpointState = saved[1])

C3_Witness ==
    /\ cur = "resume_ok"
    /\ saved # << >>
    /\ last_epoch >= 2
    /\ model >= 2
    /\ CheckpointState = saved[1]

\* C4: a second resume() right after a first one, with no epoch in between,
\* leaves the Trainer and the files exactly as the first one left them.
C4_ResumeIdempotent ==
    snap_prev # << >> => snap = snap_prev

C4_Witness ==
    /\ snap_prev # << >>
    /\ cur = "resume_ok"
    /\ prev = "resume_ok"
    /\ last_epoch >= 1
    /\ snap[1].mem = trainer

\* a train() call that follows a successful resume() on the same Trainer
TrainAfterResume == cur = "train" /\ prev = "resume_ok"

\* C5: resume() of a run persisted at last_epoch = epoches - 1, then train():
\* exactly one more epoch runs (one training pass, one validation pass, one
\* checkpoint) and train() returns.
C5_OneMoreEpoch ==
    (TrainAfterResume /\ resumed_epoch = epoches - 1 /\ pc = "idle"
        /\ outcome = "completed")
        => (cnt.train = 1 /\ cnt.val = 1 /\ cnt.ckpt = 1)

\* C6: resume() of a run persisted at last_epoch = epoches, then train(): the
\* loop body never runs, nothing is written, and the Trainer's state is the
\* state resume() restored.
C6_NoOpAtBudget ==
    (TrainAfterResume /\ resumed_epoch = epoches)
        => /\ pc \in {"loop", "idle"}
           /\ pc = "idle" => outcome = "completed"
           /\ cnt = ZeroCnt
           /\ trainer = snap[1].mem
           /\ disk = snap[1].files

C6_Witness ==
    /\ TrainAfterResume
    /\ resumed_epoch = epoches
    /\ pc = "idle"
    /\ outcome = "completed"
    /\ last_epoch = epoches

\* the eval losses of scenario A, by epoch
ScenarioA == <<80, 50, 45>>

\* the only call of the behaviour is a train() of a new Trainer, and it returned
FreshRunCompleted ==
    calls = 1 /\ kills = 0 /\ cur = "train" /\ pc = "idle" /\ outcome = "completed"

\* C7: a fresh uninterrupted run with epoches = 3 whose epochs give the eval
\* losses 0.8, 0.5, 0.45 ends with best_eval_loss = 0.45 and last_epoch = 2,
\* best.pth written in every epoch that ran.  (The train losses of the scenario
\* do not enter best_eval_loss or last_epoch.)
C7_ScenarioA ==
    (FreshRunCompleted /\ epoches = 3
        /\ \A i \in 1..last_epoch : ArrGet(eval_loss_array, i) = ScenarioA[i])
        => (best_eval_loss = 45 /\ last_epoch = 2 /\ wrote_best = 1..last_epoch)

\* C8: the best-model check writes best.pth and lowers best_eval_loss exactly
\* when the epoch's eval_loss is strictly below best_eval_loss; otherwise both
\* stay as they are.
C8_BestOnStrictImprovement ==
    [][ (pc = "best" /\ pc' = "save_ckpt") =>
          IF eval_loss < best_eval_loss
          THEN /\ best_pth' = Whole(model)
               /\ best_eval_loss' = eval_loss
               /\ wrote_best' = wrote_best \cup {epoch_idx}
          ELSE /\ best_pth' = best_pth
               /\ best_eval_loss' = best_eval_loss
               /\ wrote_best' = wrote_best
      ]_vars

\* eval losses 0.8, 0.8, 0.5: best.pth written in the 1st and 3rd epoch only
C8_Witness ==
    /\ cur = "train"
    /\ pc = "loop"
    /\ last_epoch = 3
    /\ ArrGet(eval_loss_array, 1) = 80
    /\ ArrGet(eval_loss_array, 2) = 80
    /\ ArrGet(eval_loss_array, 3) = 50
    /\ wrote_best = {1, 3}
    /\ best_pth = Whole(model)

\* C9: a training or validation pass of no batch ends train() with
\* ZeroDivisionError in that epoch; no checkpoint file and no best.pth is
\* written, and last_epoch keeps its value in memory and in last.json.
C9_EmptyPassAborts ==
    [][ ((pc = "train_pass" /\ steps' = 0) \/ (pc = "val_pass" /\ eval_batch_count' = 0))
          => /\ pc' = "idle"
             /\ outcome' = "ZeroDivisionError"
             /\ UNCHANGED <<ckpt_files, best_pth, last_epoch>>
      ]_vars

C9_Witness ==
    /\ pc = "idle"
    /\ outcome = "ZeroDivisionError"
    /\ eval_batch_count = 0
    /\ last_epoch >= 1
    /\ PersistedEpoch = last_epoch

\* C10: at every instant the five checkpoint files are those of one single
\* save_checkpoint(): all absent, or all whole and written by the same call.
C10_CheckpointIsOneEpoch ==
    \/ /\ latest = {}
       /\ \A f \in {last_ckpt, last_json, lr_npy, train_loss_npy, eval_loss_npy} :
             f.st = "absent"
    \/ /\ latest = CkptNames
       /\ last_ckpt.st = "ok"
       /\ last_json.st = "ok"
       /\ lr_npy.st = "ok"
       /\ train_loss_npy.st = "ok"
       /\ eval_loss_npy.st = "ok"

\* the first call of a new Trainer after a kill is a resume()
ResumedAfterKill ==
    killed_epoch # Unset /\ cur \in {"resume_ok", "resume_err"} /\ prev = "none"

\* train() after that resume() is about to run its first epoch
FirstEpochAfterKill ==
    killed_epoch # Unset /\ TrainAfterResume /\ pc = "train_pass" /\ cnt.train = 0

\* the five files are whole and hold the state as it was at the end of epoch e
PersistedAtEndOf(e) == saved # << >> /\ saved[1][5] = e

Resumed == cur \in {"resume_ok", "resume_err"}

\* every checkpoint file is there and whole
CheckpointReadable ==
    /\ last_ckpt.st = "ok"
    /\ last_json.st = "ok"
    /\ lr_npy.st = "ok"
    /\ train_loss_npy.st = "ok"
    /\ eval_loss_npy.st = "ok"

\* the persisted arrays that are readable all have the Trainer's epoches entries
PersistedLengthsFit ==
    \A f \in {lr_npy, train_loss_npy, eval_loss_npy} : f.st = "ok" => Len(f.data) = epoches

\* C12: load_checkpoint() raises when a checkpoint file is absent or malformed,
\* and also when a persisted array's length is not the Trainer's epoches; the
\* epoch loop is then never entered.
C12_LoadRejectsMalformed ==
    /\ (Resumed /\ ~CheckpointReadable) => cur = "resume_err"
    /\ (Resumed /\ ~PersistedLengthsFit) => cur = "resume_err"
    /\ (TrainAfterResume /\ pc \in BeforeWrite) => Len(eval_loss_array) = epoches

\* what load_checkpoint() may replace, and the flag resume() clears
Restorable == <<is_new_task, model, optmizer, lr_scheduler, best_eval_loss, last_epoch,
                t_cost, lr_array, train_loss_array, eval_loss_array>>

\* C13: a resume() that fails on a checkpoint with a missing or malformed file
\* leaves model, optimizer, scheduler, scalars, histories and the new-task flag
\* as they were before the call.
C13_FailedResumeChangesNothing ==
    [][ (calls' = calls + 1 /\ cur' = "resume_err") => Restorable' = Restorable ]_vars

CompletedEpochs == 1..(IF PersistedEpoch = Unset THEN 0 ELSE PersistedEpoch)

\* C15: whenever no epoch is in progress, the run's log holds exactly one line
\* for each epoch up to the persisted last_epoch, and no other line.
C15_LogLinePerCompletedEpoch ==
    (pc \in {"idle", "loop", "dead"} /\ last_json.st # "torn")
        => /\ \A k \in 1..Len(log_file) : log_file[k] \in CompletedEpochs
           /\ \A e \in CompletedEpochs :
                 Cardinality({k \in 1..Len(log_file) : log_file[k] = e}) = 1

\* t_cost as it was when the running train() call started: 0 for a new task,
\* the restored value for a call that follows a resume()
CallStartTCost == IF is_new_task THEN 0 ELSE snap[1].mem[13]

\* C16: after each completed epoch of a train() call, t_cost is its value at
\* the start of the call plus the time elapsed since the call started (every
\* epoch's duration counted once).
C16_TCostIsElapsedTime ==
    (cur = "train" /\ JustPersisted /\ (is_new_task \/ prev = "resume_ok"))
        => t_cost = CallStartTCost + (now - start_t)

\* C17: in every epoch the steps come in the order train pass, validation pass,
\* scheduler update, metric recording, best-model check, checkpoint write, log
\* emit: the scheduler is stepped only once the epoch's validation pass is done,
\* and a log line is emitted only once its epoch's checkpoint is written.
C17_EpochStepOrder ==
    cur = "train" =>
        /\ pc = "sched" => cnt.val = cnt.train
        /\ cnt.log <= cnt.ckpt

\* the model version a run's best.pth and last.ckpt hold
BestParams == best_pth.data
CheckpointParams == last_ckpt.data.model

\* the eval losses of the epochs the persisted history covers
PersistedEvalHistory ==
    { ArrGet(eval_loss_npy.data, i) : i \in 1..PersistedEpoch }

\* C18: whenever best.pth and a whole checkpoint both exist, best.pth holds the
\* parameters of a completed epoch of the persisted history, the one whose eval
\* loss is the persisted best_eval_loss: its parameters are not newer than the
\* checkpoint's, and the persisted best_eval_loss is in the persisted history.
C18_BestSnapshotIsPersistedEpoch ==
    (best_pth.st = "ok" /\ CheckpointReadable /\ latest = CkptNames)
        => /\ BestParams <= CheckpointParams
           /\ JsonValue(last_json.data, "best_eval_loss") \in PersistedEvalHistory

\* the first epoch index of the running train() call's range
FirstEpochOfCall == IF is_new_task THEN 1 ELSE resumed_epoch + 1

\* C19: an uninterrupted train() call whose passes all have batches returns
\* having run every epoch index from last_epoch + 1 up to epoches once, in
\* increasing order: as many training passes as indices, the last one epoches.
C19_RunsEveryEpochOfBudget ==
    (cur = "train" /\ pc = "idle" /\ outcome = "completed"
        /\ (is_new_task \/ prev = "resume_ok") /\ FirstEpochOfCall <= epoches)
        => /\ cnt.train = epoches - FirstEpochOfCall + 1
           /\ cnt.ckpt = cnt.train
           /\ last_epoch = epoches

\* C20: a train() call on a Trainer that was started fresh and has completed
\* epochs does not initialise again: last_epoch, best_eval_loss, t_cost and the
\* histories stay, and with the budget exhausted no epoch runs and the
\* checkpoint files and best.pth stay as they are.
C20_FreshInitOnce ==
    [][ (pc = "idle" /\ cur = "train" /\ is_new_task /\ last_epoch >= 1
            /\ calls' = calls + 1 /\ cur' = "train")
          => /\ last_epoch' = last_epoch
             /\ best_eval_loss' = best_eval_loss
             /\ t_cost' = t_cost
             /\ <<lr_array, train_loss_array, eval_loss_array>>'
                   = <<lr_array, train_loss_array, eval_loss_array>>
             /\ <<ckpt_files, best_pth>>' = <<ckpt_files, best_pth>>
             /\ (last_epoch >= epoches - 1 => range_next' >= range_stop')
      ]_vars

====
